---- MODULE Spec2Model ----
(***************************************************************************)
(* Model of the symbolic engine of AuditTrailGPT                           *)
(* (src/code/forensics_engine.py): format detection, the tabular-alert     *)
(* parser, the transaction-block parser, the sort and the summary of       *)
(* extract_causal_chain.                                                   *)
(*                                                                         *)
(* Text is modelled as follows.  A string that the code compares, converts *)
(* or reformats (dates, timestamps, amounts, typology names) is a sequence *)
(* of one-character strings.  A line of the input is a record: `kind' is   *)
(* the grammar the line's content belongs to, `lead' / `trail' say whether *)
(* it has leading / trailing whitespace, and the other fields are the      *)
(* substrings the patterns capture.  The input text is the sequence of its *)
(* lines (what split on the newline character gives), never empty: the     *)
(* empty string is one blank line.                                         *)
(***************************************************************************)
EXTENDS Integers, Sequences, FiniteSets, TLC

\* ------------------------------------------------------------ bounds
\* longest enumerated input text, in lines
MaxLines == 3
\* how far past the detection window the padded input texts reach
PadSlack == 1

\* ------------------------------------------------------------ strings
Digits == {"0", "1", "2", "3", "4", "5", "6", "7", "8", "9"}

DigitVal(c) ==
  CASE c = "0" -> 0 [] c = "1" -> 1 [] c = "2" -> 2 [] c = "3" -> 3
    [] c = "4" -> 4 [] c = "5" -> 5 [] c = "6" -> 6 [] c = "7" -> 7
    [] c = "8" -> 8 [] c = "9" -> 9

\* code point of a character (the order Python compares strings by)
Ord(c) ==
  CASE c = " " -> 32 [] c = "-" -> 45 [] c = "/" -> 47 [] c = ":" -> 58
    [] c = "A" -> 65 [] c = "N" -> 78
    [] OTHER -> 48 + DigitVal(c)

RECURSIVE StrLess(_, _)
\* s < t for Python strings: lexicographic by code point, a proper prefix first
StrLess(s, t) ==
  IF t = <<>> THEN FALSE
  ELSE IF s = <<>> THEN TRUE
  ELSE IF Ord(Head(s)) < Ord(Head(t)) THEN TRUE
  ELSE IF Ord(Head(s)) > Ord(Head(t)) THEN FALSE
  ELSE StrLess(Tail(s), Tail(t))

StrLeq(s, t) == s = t \/ StrLess(s, t)

RECURSIVE Remove(_, _)
\* s.replace(c, '')
Remove(s, c) ==
  IF s = <<>> THEN <<>>
  ELSE IF Head(s) = c THEN Remove(Tail(s), c)
  ELSE <<Head(s)>> \o Remove(Tail(s), c)

RECURSIVE DecimalValue(_)
\* the value of a string of decimal digits
DecimalValue(s) ==
  IF s = <<>> THEN 0
  ELSE 10 * DecimalValue(SubSeq(s, 1, Len(s) - 1)) + DigitVal(s[Len(s)])

\* int(s) for s of digits: ValueError (ok = FALSE) on the empty string
IntOf(s) ==
  IF s = <<>> THEN [ok |-> FALSE, val |-> 0]
  ELSE [ok |-> TRUE, val |-> DecimalValue(s)]

\* ------------------------------------------------------------ lines
NoStr == <<>>
MidnightSuffix == <<" ", "0", "0", ":", "0", "0", ":", "0", "0">>
NA == <<"N", "/", "A">>
SortSentinel == <<"9", "9", "9", "9", "-", "9", "9", "-", "9", "9">>

Line(kind, lead, trail, date, case_id, alert_type, amount_str, typology) ==
  [kind |-> kind, lead |-> lead, trail |-> trail, date |-> date,
   case_id |-> case_id, alert_type |-> alert_type,
   amount_str |-> amount_str, typology |-> typology]

\* an empty or whitespace-only line
BlankLine == Line("blank", FALSE, FALSE, NoStr, "", "", NoStr, NoStr)

\* line.strip() is empty
IsBlank(line) == line.kind = "blank"

\* str.lstrip / str.rstrip / str.strip on one line
LStrip(line) == [line EXCEPT !.lead = FALSE]
RStrip(line) == [line EXCEPT !.trail = FALSE]
Strip(line) == LStrip(RStrip(line))

\* KAGGLE_PATTERN.search(line): the pattern is anchored by ^\s*, so leading
\* whitespace is accepted, and it has no end anchor
KaggleMatch(line) == line.kind = "kaggle"

\* BEGIN_PATTERN applied to the text of `line' as it stands: ^BEGIN admits
\* no leading whitespace (search with ^ and match agree)
BeginMatch(line) == line.kind = "begin" /\ ~line.lead

\* END_PATTERN.match
EndMatch(line) == line.kind = "end" /\ ~line.lead

\* TX_PATTERN.match
TxMatch(line) == line.kind = "tx" /\ ~line.lead

\* ------------------------------------------------------------ conversions
RECURSIVE Count(_, _)
\* s.count(c)
Count(s, c) ==
  IF s = <<>> THEN 0
  ELSE (IF Head(s) = c THEN 1 ELSE 0) + Count(Tail(s), c)

RECURSIVE Pow10(_)
Pow10(n) == IF n = 0 THEN 1 ELSE 10 * Pow10(n - 1)

RECURSIVE IndexOf(_, _)
\* s.index(c), 1-based; Len(s) + 1 when c does not occur
IndexOf(s, c) ==
  IF s = <<>> \/ Head(s) = c THEN 1 ELSE 1 + IndexOf(Tail(s), c)

\* float(s) for s matching [\d.]+: ValueError unless s has at most one point
\* and at least one digit.  The value is the exact fraction num / den.
FloatOf(s) ==
  IF Count(s, ".") > 1 \/ Remove(s, ".") = <<>>
  THEN [ok |-> FALSE, num |-> 0, den |-> 1]
  ELSE [ok |-> TRUE, num |-> DecimalValue(Remove(s, ".")),
        den |-> Pow10(Len(s) - IndexOf(s, ".") + (IF Count(s, ".") = 0 THEN 1 ELSE 0))]

\* a + b on fractions
FracAdd(a, b) == [num |-> a.num * b.den + b.num * a.den, den |-> a.den * b.den]

\* int(x) for a non-negative fraction: truncation
FracInt(a) == a.num \div a.den

IsLeap(y) == (y % 4 = 0 /\ y % 100 # 0) \/ y % 400 = 0

DaysIn(y, m) ==
  IF m = 2 THEN (IF IsLeap(y) THEN 29 ELSE 28)
  ELSE IF m \in {4, 6, 9, 11} THEN 30 ELSE 31

RECURSIVE ZeroPad(_, _)
\* the decimal digits of n, zero-padded on the left to `width' characters
ZeroPad(n, width) ==
  IF n < 10 /\ width <= 1 THEN <<CHOOSE c \in Digits : DigitVal(c) = n>>
  ELSE ZeroPad(n \div 10, width - 1) \o <<CHOOSE c \in Digits : DigitVal(c) = n % 10>>

\* strftime("%Y") hands the year to the C library, and whether a year below
\* 1000 comes back zero-padded to four digits depends on it: glibc does not
\* pad (Python 3.11 on Linux formats year 999 as "999"), other libraries do.
\* The run's platform is one or the other.
VARIABLE pads_year

\* strftime("%Y")
FormatYear(y) == IF pads_year THEN ZeroPad(y, 4) ELSE ZeroPad(y, 1)

\* datetime.strptime(s, "%Y/%m/%d").strftime("%Y-%m-%d") for s matching
\* \d{4}/\d{2}/\d{2}: ValueError unless it names a day of the calendar
ReformatDate(s) ==
  LET y == DecimalValue(SubSeq(s, 1, 4))
      m == DecimalValue(SubSeq(s, 6, 7))
      d == DecimalValue(SubSeq(s, 9, 10))
  IN  IF y >= 1 /\ m \in 1..12 /\ d >= 1 /\ d <= DaysIn(y, m)
      THEN [ok |-> TRUE,
            val |-> FormatYear(y) \o <<"-">> \o ZeroPad(m, 2) \o <<"-">> \o ZeroPad(d, 2)]
      ELSE [ok |-> FALSE, val |-> NoStr]

\* str.upper on the letters the typology names use
Upper(c) ==
  CASE c = "a" -> "A" [] c = "c" -> "C" [] c = "e" -> "E" [] c = "f" -> "F"
    [] c = "l" -> "L" [] c = "n" -> "N" [] c = "o" -> "O" [] c = "t" -> "T"
    [] c = "u" -> "U" [] c = "y" -> "Y"
    [] OTHER -> c

\* s.upper().replace("-", "_")
NormalizeTypology(s) ==
  [i \in 1..Len(s) |-> IF s[i] = "-" THEN "_" ELSE Upper(s[i])]

\* s.replace("_", "-")
AlertTypeOf(typology) ==
  [i \in 1..Len(typology) |-> IF typology[i] = "_" THEN "-" ELSE typology[i]]

\* ------------------------------------------------------------ events
AlertType == "FINANCIAL_CRIME_ALERT"
UnknownType == "UNKNOWN"

\* the alert event as built without rstrip(): raw_log is the whole raw_line
KaggleAlert_RawLine(raw_line, amount) ==
  [timestamp |-> raw_line.date \o MidnightSuffix,
   event_type |-> AlertType,
   raw_log |-> raw_line,
   details |-> [date |-> raw_line.date,
                case_id |-> raw_line.case_id,
                alert_type |-> raw_line.alert_type,
                amount |-> amount]]

\* parse_kaggle_format: the event of a line that matches (alert_type.strip()
\* changes nothing: the lazy group ends before the whitespace that follows it)
KaggleAlert(raw_line, amount) ==
  [timestamp |-> raw_line.date \o MidnightSuffix,
   event_type |-> AlertType,
   raw_log |-> RStrip(raw_line),
   details |-> [date |-> raw_line.date,
                case_id |-> raw_line.case_id,
                alert_type |-> raw_line.alert_type,
                amount |-> amount]]

\* parse_kaggle_format: the event of a line that does not match
KaggleUnknown(raw_line, line_num) ==
  [timestamp |-> NA,
   event_type |-> UnknownType,
   raw_log |-> RStrip(raw_line),
   details |-> [error |-> [text |-> "Unmatched line", line_num |-> line_num]]]

\* the loop body with the else branch left out: an unmatched line is dropped
KaggleStep_SkipUnmatched(events, line_num, raw_line) ==
  IF IsBlank(raw_line) THEN [ok |-> TRUE, events |-> events]
  ELSE IF KaggleMatch(raw_line)
  THEN LET amount == IntOf(Remove(raw_line.amount_str, ","))
       IN  IF ~amount.ok THEN [ok |-> FALSE, events |-> events]
           ELSE [ok |-> TRUE, events |-> Append(events, KaggleAlert(raw_line, amount.val))]
  ELSE [ok |-> TRUE, events |-> events]

\* parse_kaggle_format, one iteration of the loop over enumerate(lines, 1).
\* ok = FALSE: int() raised ValueError, which nothing catches.
KaggleStep(events, line_num, raw_line) ==
  IF IsBlank(raw_line) THEN [ok |-> TRUE, events |-> events]
  ELSE IF KaggleMatch(raw_line)
  THEN LET amount == IntOf(Remove(raw_line.amount_str, ","))
       IN  IF ~amount.ok THEN [ok |-> FALSE, events |-> events]
           ELSE [ok |-> TRUE, events |-> Append(events, KaggleAlert(raw_line, amount.val))]
  ELSE [ok |-> TRUE, events |-> Append(events, KaggleUnknown(raw_line, line_num))]

RECURSIVE ParseKaggleFrom(_, _, _)
ParseKaggleFrom(lines, line_num, events) ==
  IF line_num > Len(lines) THEN [ok |-> TRUE, events |-> events]
  ELSE LET r == KaggleStep(events, line_num, lines[line_num])
       IN  IF r.ok THEN ParseKaggleFrom(lines, line_num + 1, r.events) ELSE r

\* parse_kaggle_format
ParseKaggle(lines) == ParseKaggleFrom(lines, 1, <<>>)

RECURSIVE FracSum(_)
\* sum(tx["amount"] for tx in txs)
FracSum(txs) ==
  IF txs = <<>> THEN [num |-> 0, den |-> 1]
  ELSE FracAdd(FracSum(SubSeq(txs, 1, Len(txs) - 1)), txs[Len(txs)].amount)

\* dates[0] and dates[-1] of sorted(set(tx["date"] for tx in txs))
MinDate(txs) ==
  CHOOSE d \in {txs[i].date : i \in 1..Len(txs)} :
    \A j \in 1..Len(txs) : StrLeq(d, txs[j].date)
MaxDate(txs) ==
  CHOOSE d \in {txs[i].date : i \in 1..Len(txs)} :
    \A j \in 1..Len(txs) : StrLeq(txs[j].date, d)

\* summarize_block
SummarizeBlock(typology, txs) ==
  IF txs = <<>> THEN <<>>
  ELSE LET start_date == MinDate(txs)
           end_date == MaxDate(txs)
       IN  <<[timestamp |-> start_date \o MidnightSuffix,
              event_type |-> AlertType,
              raw_log |-> [synthetic |-> typology, transactions |-> Len(txs)],
              details |-> [date |-> start_date,
                           case_id |-> <<"S", "Y", "N">>
                                       \o SubSeq(typology, 1, IF Len(typology) < 2 THEN Len(typology) ELSE 2)
                                       \o ZeroPad(Len(txs), 4),
                           alert_type |-> AlertTypeOf(typology),
                           amount |-> FracInt(FracSum(txs)),
                           transaction_count |-> Len(txs),
                           period |-> [from |-> start_date, to |-> end_date]]]>>

\* current_typology = None
NoTypology == <<>>

AmlsimInit == [events |-> <<>>, current_typology |-> NoTypology, current_txs |-> <<>>]

\* the loop with a begin marker that keeps the accumulator: the open block's
\* transactions run on into the block that the marker opens
AmlsimStep_KeepTxs(st, line) ==
  LET raw_line == Strip(line) IN
  IF BeginMatch(raw_line)
  THEN [events |-> IF st.current_typology # NoTypology /\ st.current_txs # <<>>
                   THEN st.events \o SummarizeBlock(st.current_typology, st.current_txs)
                   ELSE st.events,
        current_typology |-> NormalizeTypology(raw_line.typology),
        current_txs |-> st.current_txs]
  ELSE IF EndMatch(raw_line) /\ st.current_typology # NoTypology
  THEN [events |-> st.events \o SummarizeBlock(st.current_typology, st.current_txs),
        current_typology |-> NoTypology,
        current_txs |-> <<>>]
  ELSE IF st.current_typology # NoTypology /\ TxMatch(raw_line)
  THEN LET amount == FloatOf(raw_line.amount_str)
           date == ReformatDate(raw_line.date)
       IN  IF amount.ok /\ date.ok
           THEN [st EXCEPT !.current_txs =
                   Append(@, [date |-> date.val,
                              amount |-> [num |-> amount.num, den |-> amount.den]])]
           ELSE st
  ELSE st

\* parse_amlsim_format, one iteration of the while loop
AmlsimStep(st, line) ==
  LET raw_line == Strip(line) IN
  IF BeginMatch(raw_line)
  THEN [events |-> IF st.current_typology # NoTypology /\ st.current_txs # <<>>
                   THEN st.events \o SummarizeBlock(st.current_typology, st.current_txs)
                   ELSE st.events,
        current_typology |-> NormalizeTypology(raw_line.typology),
        current_txs |-> <<>>]
  ELSE IF EndMatch(raw_line) /\ st.current_typology # NoTypology
  THEN [events |-> st.events \o SummarizeBlock(st.current_typology, st.current_txs),
        current_typology |-> NoTypology,
        current_txs |-> <<>>]
  ELSE IF st.current_typology # NoTypology /\ TxMatch(raw_line)
  THEN LET amount == FloatOf(raw_line.amount_str)
           date == ReformatDate(raw_line.date)
       IN  IF amount.ok /\ date.ok
           THEN [st EXCEPT !.current_txs =
                   Append(@, [date |-> date.val,
                              amount |-> [num |-> amount.num, den |-> amount.den]])]
           ELSE st
  ELSE st

\* the return without the final flush: a block that the input leaves open is lost
AmlsimFinal_NoFlush(st) == st.events

\* the return that reports the final block a second time
AmlsimFinal_FlushTwice(st) ==
  IF st.current_typology # NoTypology /\ st.current_txs # <<>>
  THEN st.events \o SummarizeBlock(st.current_typology, st.current_txs)
                \o SummarizeBlock(st.current_typology, st.current_txs)
  ELSE st.events

\* parse_amlsim_format, after the loop: the final block if the file ends without END
AmlsimFinal(st) ==
  IF st.current_typology # NoTypology /\ st.current_txs # <<>>
  THEN st.events \o SummarizeBlock(st.current_typology, st.current_txs)
  ELSE st.events

RECURSIVE AmlsimFrom(_, _, _)
AmlsimFrom(lines, line_num, st) ==
  IF line_num >= Len(lines) THEN st
  ELSE AmlsimFrom(lines, line_num + 1, AmlsimStep(st, lines[line_num + 1]))

\* parse_amlsim_format
ParseAmlsim(lines) == AmlsimFinal(AmlsimFrom(lines, 0, AmlsimInit))

\* ------------------------------------------------------------ extract_causal_chain
\* the length of the prefix searched for a tabular-alert line: lines[:50]
ScanWindow == 50

RECURSIVE DropLeadingBlank(_)
DropLeadingBlank(text) ==
  IF text # <<>> /\ IsBlank(Head(text)) THEN DropLeadingBlank(Tail(text)) ELSE text

RECURSIVE DropTrailingBlank(_)
DropTrailingBlank(text) ==
  IF text # <<>> /\ IsBlank(text[Len(text)])
  THEN DropTrailingBlank(SubSeq(text, 1, Len(text) - 1)) ELSE text

\* raw_logs.strip().split('\n'): whitespace, newlines included, goes from both
\* ends of the text; what is left is split, and splitting '' gives ['']
SplitLines(raw_logs) ==
  LET t == DropTrailingBlank(DropLeadingBlank(raw_logs)) IN
  IF t = <<>> THEN <<BlankLine>>
  ELSE [i \in 1..Len(t) |->
          IF i = 1 /\ i = Len(t) THEN Strip(t[i])
          ELSE IF i = 1 THEN LStrip(t[i])
          ELSE IF i = Len(t) THEN RStrip(t[i])
          ELSE t[i]]

\* the search without the [:50] slice
HasKaggle_AllLines(lines) == \E i \in 1..Len(lines) : KaggleMatch(lines[i])

\* any(KAGGLE_PATTERN.search(line) for line in lines[:50])
HasKaggle(lines) ==
  \E i \in 1..Len(lines) : i <= ScanWindow /\ KaggleMatch(lines[i])

\* any(BEGIN_PATTERN.search(line) for line in lines)
HasAmlsim(lines) == \E i \in 1..Len(lines) : BeginMatch(lines[i])

RECURSIVE ParseFallback(_)
\* the list comprehension of the fallback branch
ParseFallback(lines) ==
  IF lines = <<>> THEN <<>>
  ELSE (IF IsBlank(Head(lines)) THEN <<>>
        ELSE <<[timestamp |-> NA,
                event_type |-> UnknownType,
                raw_log |-> RStrip(Head(lines)),
                details |-> [error |-> [text |-> "Unsupported log format"]]]>>)
       \o ParseFallback(Tail(lines))

\* the sort key: lambda x: x["timestamp"] if x["timestamp"] != "N/A" else "9999-99-99"
SortKey(e) == IF e.timestamp # NA THEN e.timestamp ELSE SortSentinel

\* the 1-based place of each element in a stable ascending sort by `key': an
\* element comes after exactly those with a smaller key and those with an
\* equal key that precede it
StableRank(key) ==
  [i \in 1..Len(key) |->
     1 + Cardinality({j \in 1..Len(key) :
           StrLess(key[j], key[i]) \/ (key[j] = key[i] /\ j < i)})]

Permute(events, rank) ==
  [k \in 1..Len(events) |-> events[CHOOSE i \in 1..Len(events) : rank[i] = k]]

\* parsed_events.sort(key=...): list.sort is ascending and stable
\* (the singleton sets bind each intermediate value once)
SortEvents(events) ==
  CHOOSE sorted \in
    { Permute(evs, rank) :
        evs \in {events},
        rank \in { StableRank(key) :
                     key \in {[i \in 1..Len(events) |-> SortKey(events[i])]} } } : TRUE

\* no filter on event_type: every event counts as an alert
SelectAlerts_All(events) == events

RECURSIVE SelectAlerts(_)
\* valid = [e for e in parsed_events if e["event_type"] == "FINANCIAL_CRIME_ALERT"]
SelectAlerts(events) ==
  IF events = <<>> THEN <<>>
  ELSE (IF Head(events).event_type = AlertType THEN <<Head(events)>> ELSE <<>>)
       \o SelectAlerts(Tail(events))

\* isinstance(e["details"].get("amount"), (int, float)): the details have an
\* amount (every amount the parsers store is an int)
HasNumericAmount(e) == "amount" \in DOMAIN e.details

RECURSIVE SumAmounts(_)
\* sum(e["details"]["amount"] for e in valid if isinstance(...))
SumAmounts(valid) ==
  IF valid = <<>> THEN 0
  ELSE (IF HasNumericAmount(Head(valid)) THEN Head(valid).details.amount ELSE 0)
       + SumAmounts(Tail(valid))

DetectedFormat(has_k, has_a) ==
  IF has_k THEN "KAGGLE" ELSE IF has_a THEN "AMLSIM" ELSE "UNKNOWN"

\* the count of the newline characters in place of the count of the lines
TotalLines_Newlines(lines) == Len(lines) - 1

\* the "total_lines" entry of the summary
TotalLines(lines) == Len(lines)

\* the sort and the document that json.dumps serialises
Document(lines, parsed_events, has_k, has_a) ==
  LET sorted == SortEvents(parsed_events)
      total_alerts == Len(SelectAlerts(sorted))
  IN  [causal_chain |-> sorted,
       summary |-> [total_alerts |-> total_alerts,
                    total_amount_at_risk |-> SumAmounts(SelectAlerts(sorted)),
                    total_lines |-> TotalLines(lines),
                    unmatched_lines |-> TotalLines(lines) - total_alerts,
                    detected_format |-> DetectedFormat(has_k, has_a)]]

\* extract_causal_chain as a function of its input: raised = TRUE when an
\* exception leaves the function, and then there is no document
ExtractCausalChain(raw_logs) ==
  LET lines == SplitLines(raw_logs)
      has_k == HasKaggle(lines)
      has_a == HasAmlsim(lines)
  IN  IF has_k
      THEN LET r == ParseKaggle(lines)
           IN  IF r.ok THEN [raised |-> FALSE, doc |-> Document(lines, r.events, has_k, has_a)]
               ELSE [raised |-> TRUE]
      ELSE IF has_a
      THEN [raised |-> FALSE, doc |-> Document(lines, ParseAmlsim(lines), has_k, has_a)]
      ELSE [raised |-> FALSE, doc |-> Document(lines, ParseFallback(lines), has_k, has_a)]

\* ------------------------------------------------------------ inputs
D_2024_01_05 == <<"2", "0", "2", "4", "-", "0", "1", "-", "0", "5">>
D_2023_12_31 == <<"2", "0", "2", "3", "-", "1", "2", "-", "3", "1">>
D_9999_99_99 == <<"9", "9", "9", "9", "-", "9", "9", "-", "9", "9">>

\* tabular-alert lines: "1 | 2024-01-05 | Case ID FC000123 | Structuring detected
\* involving cross-border entities, automated alert triggered. | Amount: $10,000"
KaggleLines ==
  { Line("kaggle", FALSE, FALSE, D_2024_01_05, "FC000123", "Structuring",
         <<"1", "0", ",", "0", "0", "0">>, NoStr),
    Line("kaggle", TRUE, TRUE, D_2023_12_31, "FC000456", "Smurfing",
         <<"5", "0", "0">>, NoStr),
    Line("kaggle", FALSE, FALSE, D_9999_99_99, "FC000789", "Layering",
         <<"7">>, NoStr),
    \* the amount field after '$' holds a thousands separator and no digit
    Line("kaggle", FALSE, FALSE, D_2024_01_05, "FC000123", "Structuring",
         <<",">>, NoStr) }

\* a line of neither grammar
OtherLine == Line("other", TRUE, TRUE, NoStr, "", "", NoStr, NoStr)

\* "BEGIN LAUNDERING ATTEMPT - FAN-OUT", "   BEGIN LAUNDERING ATTEMPT - cycle"
BeginLines ==
  { Line("begin", FALSE, FALSE, NoStr, "", "", NoStr, <<"F", "A", "N", "-", "O", "U", "T">>),
    Line("begin", TRUE, FALSE, NoStr, "", "", NoStr, <<"c", "y", "c", "l", "e">>) }

\* "END LAUNDERING ATTEMPT"
EndLine == Line("end", FALSE, FALSE, NoStr, "", "", NoStr, NoStr)

\* transaction lines: "2022/09/01 00:12,021,8000F4580,021,8000F4580,100.0,US Dollar,..."
TxLines ==
  { Line("tx", FALSE, FALSE, <<"2", "0", "2", "2", "/", "0", "9", "/", "0", "1">>, "", "",
         <<"1", "0", "0", ".", "0">>, NoStr),
    Line("tx", FALSE, FALSE, <<"2", "0", "2", "2", "/", "0", "9", "/", "0", "3">>, "", "",
         <<"2", "5", "0", ".", "0">>, NoStr),
    \* matches the pattern, names no day of the calendar
    Line("tx", FALSE, FALSE, <<"2", "0", "2", "2", "/", "1", "3", "/", "4", "5">>, "", "",
         <<"1", "0", "0", ".", "0">>, NoStr),
    \* matches the pattern, the amount is no number
    Line("tx", FALSE, FALSE, <<"2", "0", "2", "2", "/", "0", "9", "/", "0", "2">>, "", "",
         <<"1", ".", "2", ".", "3">>, NoStr) }

LineSamples ==
  {BlankLine, OtherLine, EndLine} \cup KaggleLines \cup BeginLines \cup TxLines

\* every text of 1..MaxLines sample lines
ShortTexts == UNION {[1..n -> LineSamples] : n \in 1..MaxLines}

\* texts that reach the end of the detection window: a first line, a run of
\* blank lines or of unmatched lines, and a last line at or after the window's end
PaddedTexts ==
  { <<h>> \o [i \in 1..n |-> p] \o <<t>> :
      h \in {OtherLine} \cup {b \in BeginLines : ~b.lead},
      p \in {BlankLine, OtherLine},
      n \in (ScanWindow - 2)..(ScanWindow - 2 + PadSlack),
      t \in {OtherLine} \cup {k \in KaggleLines : k.date = D_2024_01_05} }

\* the lines of the longer transaction-block texts: a begin marker, an end
\* marker, the two transactions of 2022/09/01 and 2022/09/03, one with a
\* fractional amount and one of the year 999
BlockSamples ==
  { Line("begin", FALSE, FALSE, NoStr, "", "", NoStr, <<"F", "A", "N", "-", "O", "U", "T">>),
    EndLine,
    Line("tx", FALSE, FALSE, <<"2", "0", "2", "2", "/", "0", "9", "/", "0", "1">>, "", "",
         <<"1", "0", "0", ".", "0">>, NoStr),
    Line("tx", FALSE, FALSE, <<"2", "0", "2", "2", "/", "0", "9", "/", "0", "3">>, "", "",
         <<"2", "5", "0", ".", "0">>, NoStr),
    Line("tx", FALSE, FALSE, <<"2", "0", "2", "2", "/", "0", "9", "/", "0", "2">>, "", "",
         <<"0", ".", "5">>, NoStr),
    Line("tx", FALSE, FALSE, <<"0", "9", "9", "9", "/", "1", "2", "/", "3", "1">>, "", "",
         <<"1", "0", "0", ".", "0">>, NoStr) }

\* transaction-block texts one line longer than the short texts
BlockTexts == [1..(MaxLines + 1) -> BlockSamples]

Inputs == ShortTexts \cup PaddedTexts \cup BlockTexts

\* ------------------------------------------------------------ the run
VARIABLES
  raw_logs,          \* the argument of extract_causal_chain
  lines,             \* raw_logs.strip().split('\n')
  has_kaggle,
  has_amlsim,
  pc,                \* where the call stands
  line_num,          \* lines consumed by the running parser
  parsed_events,     \* the running parser's events, then parsed_events
  current_typology,  \* parse_amlsim_format's open block
  current_txs,
  result             \* the returned document, once pc = "done"

vars == <<raw_logs, pads_year, lines, has_kaggle, has_amlsim, pc, line_num, parsed_events,
          current_typology, current_txs, result>>

NoResult == [pending |-> TRUE]

Init ==
  /\ raw_logs \in Inputs
  /\ pads_year \in BOOLEAN
  /\ lines = <<>>
  /\ has_kaggle = FALSE
  /\ has_amlsim = FALSE
  /\ pc = "start"
  /\ line_num = 0
  /\ parsed_events = <<>>
  /\ current_typology = NoTypology
  /\ current_txs = <<>>
  /\ result = NoResult

\* lines 125-134: split, detect the format, enter the parser of that format
Detect ==
  /\ pc = "start"
  /\ lines' = SplitLines(raw_logs)
  /\ has_kaggle' = HasKaggle(lines')
  /\ has_amlsim' = HasAmlsim(lines')
  /\ pc' = IF has_kaggle' THEN "kaggle" ELSE IF has_amlsim' THEN "amlsim" ELSE "fallback"
  /\ UNCHANGED <<raw_logs, pads_year, line_num, parsed_events, current_typology, current_txs, result>>

\* parse_kaggle_format: one line; the ValueError of int() leaves extract_causal_chain
KaggleLine ==
  /\ pc = "kaggle"
  /\ line_num < Len(lines)
  /\ LET r == KaggleStep(parsed_events, line_num + 1, lines[line_num + 1])
     IN  /\ parsed_events' = r.events
         /\ pc' = IF r.ok THEN "kaggle" ELSE "raised"
  /\ line_num' = line_num + 1
  /\ UNCHANGED <<raw_logs, pads_year, lines, has_kaggle, has_amlsim, current_typology, current_txs, result>>

\* parse_kaggle_format returns
KaggleReturn ==
  /\ pc = "kaggle"
  /\ line_num = Len(lines)
  /\ pc' = "sort"
  /\ UNCHANGED <<raw_logs, pads_year, lines, has_kaggle, has_amlsim, line_num, parsed_events,
                 current_typology, current_txs, result>>

\* parse_amlsim_format: one line
AmlsimLine ==
  /\ pc = "amlsim"
  /\ line_num < Len(lines)
  /\ LET st == AmlsimStep([events |-> parsed_events,
                           current_typology |-> current_typology,
                           current_txs |-> current_txs], lines[line_num + 1])
     IN  /\ parsed_events' = st.events
         /\ current_typology' = st.current_typology
         /\ current_txs' = st.current_txs
  /\ line_num' = line_num + 1
  /\ UNCHANGED <<raw_logs, pads_year, lines, has_kaggle, has_amlsim, pc, result>>

\* parse_amlsim_format: the final block, and the return
AmlsimReturn ==
  /\ pc = "amlsim"
  /\ line_num = Len(lines)
  /\ parsed_events' = AmlsimFinal([events |-> parsed_events,
                                   current_typology |-> current_typology,
                                   current_txs |-> current_txs])
  /\ pc' = "sort"
  /\ UNCHANGED <<raw_logs, pads_year, lines, has_kaggle, has_amlsim, line_num,
                 current_typology, current_txs, result>>

\* the fallback list of UNKNOWN events
Fallback ==
  /\ pc = "fallback"
  /\ parsed_events' = ParseFallback(lines)
  /\ pc' = "sort"
  /\ UNCHANGED <<raw_logs, pads_year, lines, has_kaggle, has_amlsim, line_num,
                 current_typology, current_txs, result>>

\* lines 144-160: sort, summarise, return
Finish ==
  /\ pc = "sort"
  /\ result' = Document(lines, parsed_events, has_kaggle, has_amlsim)
  /\ pc' = "done"
  /\ UNCHANGED <<raw_logs, pads_year, lines, has_kaggle, has_amlsim, line_num, parsed_events,
                 current_typology, current_txs>>

Next ==
  \/ Detect
  \/ KaggleLine
  \/ KaggleReturn
  \/ AmlsimLine
  \/ AmlsimReturn
  \/ Fallback
  \/ Finish

Spec == Init /\ [][Next]_vars

\* the call has returned its document
Returned == pc = "done"
\* an exception has left the call
Raised == pc = "raised"

\* ------------------------------------------------------------ what the claims speak of
\* the indices of the lines of the input text that are not blank
NonEmpty(text) == {i \in 1..Len(text) : ~IsBlank(text[i])}

chain == result.causal_chain
summary == result.summary

\* a timestamp other than "N/A"
RealTimestamp(e) == e.timestamp # NA

\* ------------------------------------------------------------ C1
\* C1: extract_causal_chain never fails: whatever the input, no exception
\* leaves it (a line whose amount cannot be converted is handled locally).
C1_NeverFails == ~Raised

\* ------------------------------------------------------------ C2
\* C2: in the returned causal_chain the timestamps never decrease, and every
\* event with timestamp "N/A" comes after every event with a real timestamp.
C2_Ordering ==
  Returned =>
    \A i, j \in 1..Len(chain) :
      i < j =>
        /\ (RealTimestamp(chain[i]) /\ RealTimestamp(chain[j])
              => StrLeq(chain[i].timestamp, chain[j].timestamp))
        /\ ~(~RealTimestamp(chain[i]) /\ RealTimestamp(chain[j]))

\* ------------------------------------------------------------ C3
\* C3: when the detected format is KAGGLE or UNKNOWN, every non-empty line of
\* the input yields exactly one event: the chain has as many events as the
\* input has non-empty lines, and each line's text (up to the whitespace
\* around it) is the raw_log of as many events as there are lines with that text.
C3_OneEventPerLine ==
  (Returned /\ summary.detected_format \in {"KAGGLE", "UNKNOWN"}) =>
    /\ Len(chain) = Cardinality(NonEmpty(raw_logs))
    /\ \A i \in NonEmpty(raw_logs) :
         Cardinality({k \in 1..Len(chain) : Strip(chain[k].raw_log) = Strip(raw_logs[i])})
           = Cardinality({j \in NonEmpty(raw_logs) : Strip(raw_logs[j]) = Strip(raw_logs[i])})

\* a KAGGLE run has returned two events for a matched line, a blank line and
\* an unmatched line
C3_Witness ==
  /\ Returned
  /\ summary.detected_format = "KAGGLE"
  /\ Len(raw_logs) = 3
  /\ IsBlank(raw_logs[2])
  /\ KaggleMatch(raw_logs[1])
  /\ raw_logs[3].kind = "other"
  /\ Len(chain) = 2

\* ------------------------------------------------------------ C4
\* the lines the block parser takes for begin markers, end markers and
\* well-formed transaction lines (it strips each line first)
IsBegin(line) == line.kind = "begin"
IsEnd(line) == line.kind = "end"
WellFormedTx(line) ==
  line.kind = "tx" /\ FloatOf(line.amount_str).ok /\ ReformatDate(line.date).ok

\* the block opened at line b reaches to the next marker or the end of input
BlockLines(text, b) ==
  {i \in (b + 1)..Len(text) :
     \A m \in (b + 1)..i : ~IsBegin(text[m]) /\ ~IsEnd(text[m])}

BlockTxs(text, b) == {i \in BlockLines(text, b) : WellFormedTx(text[i])}

\* the begin markers that open a block with at least one transaction
NonEmptyBlocks(text) ==
  {b \in 1..Len(text) : IsBegin(text[b]) /\ BlockTxs(text, b) # {}}

BlockLabel(text, b) ==
  [synthetic |-> NormalizeTypology(text[b].typology),
   transactions |-> Cardinality(BlockTxs(text, b))]

\* C4: when the detected format is AMLSIM, the chain holds exactly one
\* FINANCIAL_CRIME_ALERT event per non-empty block and nothing else: as many
\* events as non-empty blocks, each block's summary present once per such
\* block, and no event for a block without transactions.
C4_OneEventPerBlock ==
  (Returned /\ summary.detected_format = "AMLSIM") =>
    /\ Len(chain) = Cardinality(NonEmptyBlocks(raw_logs))
    /\ \A k \in 1..Len(chain) : chain[k].event_type = AlertType
    /\ \A b \in NonEmptyBlocks(raw_logs) :
         Cardinality({k \in 1..Len(chain) : chain[k].raw_log = BlockLabel(raw_logs, b)})
           = Cardinality({c \in NonEmptyBlocks(raw_logs) :
                            BlockLabel(raw_logs, c) = BlockLabel(raw_logs, b)})

\* an AMLSIM run has returned one event for two blocks: one with a
\* transaction, closed by the begin marker of one without
C4_Witness ==
  /\ Returned
  /\ summary.detected_format = "AMLSIM"
  /\ Len(raw_logs) = 3
  /\ IsBegin(raw_logs[1]) /\ WellFormedTx(raw_logs[2]) /\ IsBegin(raw_logs[3])
  /\ Len(chain) = 1

\* ------------------------------------------------------------ C5
\* C5: in every returned document total_alerts is the number of
\* FINANCIAL_CRIME_ALERT events of causal_chain, and unmatched_lines is
\* total_lines minus total_alerts.
C5_Conservation ==
  Returned =>
    /\ summary.total_alerts
         = Cardinality({k \in 1..Len(chain) : chain[k].event_type = AlertType})
    /\ summary.unmatched_lines = summary.total_lines - summary.total_alerts

\* a document with both kinds of event has been returned
C5_Witness ==
  /\ Returned
  /\ summary.total_alerts = 1
  /\ Len(chain) = 3

\* ------------------------------------------------------------ C6
\* C6: total_lines is the number of non-empty lines of the input text; blank
\* lines between non-empty lines are not counted.  (Stated for texts with a
\* non-empty line; the text without any is the case of C7.)
C6_TotalLinesNonEmpty ==
  (Returned /\ NonEmpty(raw_logs) # {}) =>
    summary.total_lines = Cardinality(NonEmpty(raw_logs))

\* ------------------------------------------------------------ C7
\* C7: for empty input (nothing but whitespace) the chain is empty, every
\* summary count is zero and the detected format is UNKNOWN.
C7_EmptyInput ==
  (Returned /\ NonEmpty(raw_logs) = {}) =>
    /\ chain = <<>>
    /\ summary.total_alerts = 0
    /\ summary.total_amount_at_risk = 0
    /\ summary.total_lines = 0
    /\ summary.unmatched_lines = 0
    /\ summary.detected_format = "UNKNOWN"

\* ------------------------------------------------------------ C8
RECURSIVE Take(_, _)
\* the first n elements of a sequence of indices
Take(idx, n) ==
  IF n = 0 \/ idx = <<>> THEN {} ELSE {Head(idx)} \cup Take(Tail(idx), n - 1)

RECURSIVE Ascending(_, _)
\* the elements of the set of numbers S from `from' on, in ascending order
Ascending(S, from) ==
  IF \A i \in S : i < from THEN <<>>
  ELSE (IF from \in S THEN <<from>> ELSE <<>>) \o Ascending(S, from + 1)

\* the first line of the text that is not blank (0 when there is none)
FirstNonEmpty(text) ==
  IF NonEmpty(text) = {} THEN 0
  ELSE CHOOSE i \in NonEmpty(text) : \A j \in NonEmpty(text) : i <= j

\* a tabular-alert line among the first ScanWindow non-empty lines
MatchInNonEmptyWindow(text) ==
  \E i \in Take(Ascending(NonEmpty(text), 1), ScanWindow) : KaggleMatch(text[i])

\* a tabular-alert line among the first ScanWindow lines, blank ones counted,
\* from the first non-empty line of the text on
MatchInLineWindow(text) ==
  \E i \in NonEmpty(text) :
    /\ i - FirstNonEmpty(text) < ScanWindow
    /\ KaggleMatch(text[i])

\* C8 as stated: the detected format is KAGGLE exactly when one of the first
\* 50 non-empty lines matches the tabular-alert grammar (blank lines do not
\* use up the window).
C8_NonEmptyWindow ==
  /\ pc # "start" => (has_kaggle <=> MatchInNonEmptyWindow(raw_logs))
  /\ Returned =>
       (summary.detected_format = "KAGGLE" <=> MatchInNonEmptyWindow(raw_logs))

\* C8 as amended: the detected format is KAGGLE exactly when one of the first
\* 50 lines of the text, counted from its first non-empty line and with the
\* blank lines among them included, matches the tabular-alert grammar.
C8_LineWindow ==
  /\ pc # "start" => (has_kaggle <=> MatchInLineWindow(raw_logs))
  /\ Returned =>
       (summary.detected_format = "KAGGLE" <=> MatchInLineWindow(raw_logs))

\* a run has returned a format other than KAGGLE for a text whose second
\* non-empty line is a tabular-alert line, behind blank lines that fill the window
C8_Witness ==
  /\ Returned
  /\ summary.detected_format # "KAGGLE"
  /\ Cardinality(NonEmpty(raw_logs)) = 2
  /\ KaggleMatch(raw_logs[Len(raw_logs)])
  /\ Len(raw_logs) = ScanWindow + 1

\* ------------------------------------------------------------ C9
\* C9: when no tabular-alert line is found in the scanned prefix, the format
\* is AMLSIM if some line of the input is a begin marker that the block
\* parser would accept (leading whitespace included, the parser strips it),
\* and UNKNOWN otherwise.
C9_DetectorAgreesWithParser ==
  (Returned /\ ~has_kaggle) =>
    /\ (\E i \in 1..Len(raw_logs) : BeginMatch(Strip(raw_logs[i])))
         => summary.detected_format = "AMLSIM"
    /\ ~(\E i \in 1..Len(raw_logs) : BeginMatch(Strip(raw_logs[i])))
         => summary.detected_format = "UNKNOWN"

\* ------------------------------------------------------------ C10
\* extract_causal_chain on the text of one raw_log
Rerun(e) == ExtractCausalChain(<<e.raw_log>>)

RECURSIVE InOrder(_)
InOrder(S) ==
  IF S = {} THEN <<>>
  ELSE LET first == CHOOSE x \in S : \A y \in S : x <= y
       IN  <<first>> \o InOrder(S \ {first})

IsMarker(line) == IsBegin(line) \/ IsEnd(line)

\* the non-empty blocks that a marker among the first n lines has closed
ClosedBlocks(text, n) ==
  {b \in NonEmptyBlocks(text) : b < n /\ \E m \in (b + 1)..n : IsMarker(text[m])}

\* the begin marker, if any, whose block is open after the first n lines
OpenBlock(text, n) ==
  {b \in 1..n : IsBegin(text[b]) /\ \A m \in (b + 1)..n : ~IsMarker(text[m])}

\* C11: blocks never nest and never share a transaction. At every point of
\* the block scan the events so far are the summaries of the non-empty blocks
\* closed so far, one each and in order, every one counting its own
\* transactions only; and the accumulator holds just the transactions read
\* since the begin marker of the open block, so that right after a begin
\* marker (also one met while a block is open) it is empty, the block that
\* was open has its event, and the new block carries the marker's typology.
C11_BlocksNeverNest ==
  pc = "amlsim" =>
    /\ [k \in 1..Len(parsed_events) |-> parsed_events[k].raw_log]
         = [k \in 1..Cardinality(ClosedBlocks(lines, line_num)) |->
              BlockLabel(lines, InOrder(ClosedBlocks(lines, line_num))[k])]
    /\ IF OpenBlock(lines, line_num) = {}
       THEN current_typology = NoTypology /\ current_txs = <<>>
       ELSE \A b \in OpenBlock(lines, line_num) :
              /\ current_typology = NormalizeTypology(lines[b].typology)
              /\ Len(current_txs)
                   = Cardinality({i \in BlockTxs(lines, b) : i <= line_num})

\* the scan has just read a begin marker while a block with two transactions
\* was open: that block has its event, the accumulator is empty
C11_Witness ==
  /\ pc = "amlsim"
  /\ line_num = 4
  /\ IsBegin(lines[1]) /\ WellFormedTx(lines[2]) /\ WellFormedTx(lines[3])
  /\ IsBegin(lines[4])
  /\ Len(parsed_events) = 1
  /\ parsed_events[1].raw_log.transactions = 2
  /\ current_txs = <<>>

\* ------------------------------------------------------------ C12
\* the block scan of the whole text is over
ScanComplete == pc \in {"sort", "done"} /\ has_amlsim /\ ~has_kaggle

\* the text ends inside a block that has at least one transaction and no end marker
EndsInOpenBlock ==
  /\ has_amlsim /\ ~has_kaggle
  /\ OpenBlock(lines, Len(lines)) # {}
  /\ \A b \in OpenBlock(lines, Len(lines)) : BlockTxs(lines, b) # {}

\* the transactions that the events report, all together
RECURSIVE ReportedTxs(_)
ReportedTxs(events) ==
  IF events = <<>> THEN 0
  ELSE events[1].details.transaction_count + ReportedTxs(Tail(events))

\* the well-formed transaction lines inside the blocks of a text
AllBlockTxs(text) == UNION {BlockTxs(text, b) : b \in {i \in 1..Len(text) : IsBegin(text[i])}}

\* the block left open at the end of the text has its event, once: it is the
\* last of as many events as there are non-empty blocks
FinalBlockFlushedOnce ==
  /\ Len(parsed_events) = Cardinality(NonEmptyBlocks(lines))
  /\ \A b \in OpenBlock(lines, Len(lines)) :
       /\ parsed_events # <<>>
       /\ parsed_events[Len(parsed_events)].raw_log = BlockLabel(lines, b)
       /\ \A k \in 1..(Len(parsed_events) - 1) :
            parsed_events[k].raw_log
              = BlockLabel(lines, InOrder(NonEmptyBlocks(lines))[k])

\* the step that ends the block scan: parse_amlsim_format returns
ScanEnds == pc = "amlsim" /\ pc' = "sort"

\* C12: when the text ends inside an open block with at least one transaction
\* (no end marker), the step that ends the scan adds that block's summary
\* event, one event and no more, to the events so far, and in the completed
\* scan it is there exactly once; and whenever the scan is complete, no
\* accumulated transaction is left unreported: the events report as many
\* transactions as the blocks of the text hold.
C12_FinalBlockFlushed ==
  /\ [](ScanComplete => ReportedTxs(parsed_events) = Cardinality(AllBlockTxs(lines)))
  /\ [](ScanComplete /\ EndsInOpenBlock => FinalBlockFlushedOnce)
  /\ [][ScanEnds /\ EndsInOpenBlock =>
          /\ Len(parsed_events') = Len(parsed_events) + 1
          /\ SubSeq(parsed_events', 1, Len(parsed_events)) = parsed_events
          /\ parsed_events'[Len(parsed_events')].details.transaction_count
               = Len(current_txs)]_vars

\* the scan of a text that ends inside the second of two blocks is complete:
\* two events, the last one for the transaction of the open block
C12_Witness ==
  /\ ScanComplete
  /\ EndsInOpenBlock
  /\ Len(lines) = 4
  /\ IsBegin(lines[1]) /\ WellFormedTx(lines[2])
  /\ IsBegin(lines[3]) /\ WellFormedTx(lines[4])
  /\ Len(parsed_events) = 2
  /\ parsed_events[2].details.transaction_count = 1

\* ------------------------------------------------------------ C13
\* the transaction lines' dates are \d{4}/\d{2}/\d{2}: as strings of equal
\* length with the year first, they compare as the days they name do
EarliestTx(text, b) ==
  CHOOSE i \in BlockTxs(text, b) :
    \A j \in BlockTxs(text, b) : StrLeq(text[i].date, text[j].date)
LatestTx(text, b) ==
  CHOOSE i \in BlockTxs(text, b) :
    \A j \in BlockTxs(text, b) : StrLeq(text[j].date, text[i].date)

\* the date of a transaction line, as the events give dates
EventDate(line) == ReformatDate(line.date).val

\* the amounts of the transaction lines idx, added up
RECURSIVE AmountOfLines(_, _)
AmountOfLines(text, idx) ==
  IF idx = <<>> THEN [num |-> 0, den |-> 1]
  ELSE LET a == FloatOf(text[Head(idx)].amount_str)
       IN  FracAdd([num |-> a.num, den |-> a.den], AmountOfLines(text, Tail(idx)))

\* the event of a block has the block's count and truncated sum
CountAndAmountOf(e, text, b) ==
  /\ e.details.transaction_count = Cardinality(BlockTxs(text, b))
  /\ e.details.amount = FracInt(AmountOfLines(text, InOrder(BlockTxs(text, b))))

\* the event of a block spans the block's earliest to latest date
PeriodOf(e, text, b) ==
  /\ e.details.period = [from |-> EventDate(text[EarliestTx(text, b)]),
                         to |-> EventDate(text[LatestTx(text, b)])]
  /\ e.timestamp = EventDate(text[EarliestTx(text, b)]) \o MidnightSuffix

\* C13: in a completed block scan the event of every non-empty block has
\* transaction_count = the number of the block's transactions, amount = their
\* sum truncated to an integer, period = "<earliest date> to <latest date>"
\* and timestamp = the earliest date followed by " 00:00:00".
C13_BlockSummary ==
  ScanComplete =>
    \A k \in 1..Len(parsed_events) :
      /\ CountAndAmountOf(parsed_events[k], lines, InOrder(NonEmptyBlocks(lines))[k])
      /\ PeriodOf(parsed_events[k], lines, InOrder(NonEmptyBlocks(lines))[k])

\* ------------------------------------------------------------ C14
\* the non-empty lines of the input text that the tabular-alert grammar does not match
UnmatchedLines(text) == {i \in NonEmpty(text) : ~KaggleMatch(text[i])}

\* the events of the chain that report line i of the input text as unmatched:
\* UNKNOWN, the error citing i, the raw_log the line (up to the whitespace around it)
UnknownEventsOf(i) ==
  {k \in 1..Len(chain) :
     /\ chain[k].event_type = UnknownType
     /\ "line_num" \in DOMAIN chain[k].details.error
     /\ chain[k].details.error.line_num = i
     /\ Strip(chain[k].raw_log) = Strip(raw_logs[i])}

\* C14: when the detected format is KAGGLE or UNKNOWN, every non-empty line
\* that the tabular-alert grammar does not match yields one UNKNOWN event whose
\* details.error cites the line's 1-based number in the input text (blank
\* lines at the start of the input counted, the fallback for an unrecognised
\* format included) and whose raw_log is the line; total_alerts counts none
\* of these events, only the FINANCIAL_CRIME_ALERT events.
C14_UnknownCitesLineNumber ==
  (Returned /\ summary.detected_format \in {"KAGGLE", "UNKNOWN"}) =>
    /\ \A i \in UnmatchedLines(raw_logs) : Cardinality(UnknownEventsOf(i)) = 1
    /\ summary.total_alerts
         = Cardinality({k \in 1..Len(chain) : chain[k].event_type = AlertType})

\* ------------------------------------------------------------ C15
\* C15: summary.unmatched_lines is never negative, whatever the input and the
\* detected format: the FINANCIAL_CRIME_ALERT events are never more than the
\* lines counted in total_lines, and in the AMLSIM format never more than
\* half of them, each alert having a begin-marker line and a transaction
\* line of its own.
C15_UnmatchedNeverNegative ==
  Returned =>
    /\ summary.unmatched_lines >= 0
    /\ summary.total_alerts <= summary.total_lines
    /\ summary.total_alerts
         = Cardinality({k \in 1..Len(chain) : chain[k].event_type = AlertType})
    /\ (summary.detected_format = "AMLSIM"
          => 2 * summary.total_alerts <= summary.total_lines)

\* an AMLSIM run has returned two alerts for four lines: two blocks of a
\* begin marker and one transaction each
C15_Witness ==
  /\ Returned
  /\ summary.detected_format = "AMLSIM"
  /\ summary.total_lines = 4
  /\ summary.total_alerts = 2
  /\ summary.unmatched_lines = 2

====
